---- MODULE Spec2Model ----
(***************************************************************************)
(* Model of src/src/binding.cc: the AprilTagDetector object wrap.  One     *)
(* service instance is followed through its life: construction             *)
(* (AprilTagDetector::AprilTagDetector), any number of detect calls        *)
(* (AprilTagDetector::Detect) and teardown (~AprilTagDetector).            *)
(*                                                                         *)
(* Host values are records tagged by their type.  A number is kept as its  *)
(* integral part `whole` (the value truncated toward zero) and a flag      *)
(* `frac` that is 1 when the value has a fractional part, so that          *)
(* Int32Value, which truncates, is not the identity.  A buffer is kept by  *)
(* its length only: no line of binding.cc looks at a pixel.  The detection *)
(* engine (AprilTags::TagDetector) is external: extractTags returns any    *)
(* sequence of raw detections.                                             *)
(***************************************************************************)
EXTENDS Integers, Sequences, FiniteSets, TLC

VARIABLES
  phase,      \* "new", "live" (handle held by the host), "failed", "gone", "aborted"
  detector,   \* the member AprilTags::TagDetector* detector and the engine it points to
  created,    \* number of `new AprilTags::TagDetector` executed
  destroyed,  \* number of `delete detector` executed
  ctorCall,   \* the constructor call: its arguments, the build, its outcome
  detCall     \* the last detect call: its arguments and its outcome

vars == <<phase, detector, created, destroyed, ctorCall, detCall>>

---------------------------------------------------------------------------
(* Host (JavaScript) values *)

Undefined == [t |-> "undefined"]
Str(s) == [t |-> "string", s |-> s]
Num(w, f) == [t |-> "number", whole |-> w, frac |-> f]
Buf(n) == [t |-> "buffer", len |-> n]
Obj(has, bb) == [t |-> "object", has |-> has, bb |-> bb]

IsString(v) == v.t = "string"
IsNumber(v) == v.t = "number"
IsBuffer(v) == v.t = "buffer"
\* Napi::Value::IsObject is true of buffers too; only plain objects and
\* buffers are objects among the values used here
IsObject(v) == v.t \in {"object", "buffer"}
HasBlackBorder(v) == v.t = "object" /\ v.has

\* Napi::Number::Int32Value: truncation toward zero.  Every number used here
\* has its integral part inside the int range, so no reduction modulo 2^32.
Int32Value(v) == v.whole

---------------------------------------------------------------------------
(* 32-bit int arithmetic of `width * height * 3` *)

MaxInt32 == 2147483647

Abs(n) == IF n < 0 THEN -n ELSE n

\* the j-th byte of the two's complement representation of the int a
ByteOf(a, j) == (a \div (256 ^ j)) % 256

\* the int whose two's complement bytes are r0 (lowest) .. r3
FromBytes(r0, r1, r2, r3) ==
  IF r3 >= 128 THEN (r3 - 256) * 16777216 + r2 * 65536 + r1 * 256 + r0
  ELSE r3 * 16777216 + r2 * 65536 + r1 * 256 + r0

\* a * b reduced modulo 2^32 (what a 32-bit imul leaves in the register)
MulWrap32(a, b) ==
  LET a0 == ByteOf(a, 0)  a1 == ByteOf(a, 1)  a2 == ByteOf(a, 2)  a3 == ByteOf(a, 3)
      b0 == ByteOf(b, 0)  b1 == ByteOf(b, 1)  b2 == ByteOf(b, 2)  b3 == ByteOf(b, 3)
      c0 == a0 * b0
      c1 == c0 \div 256 + a0 * b1 + a1 * b0
      c2 == c1 \div 256 + a0 * b2 + a1 * b1 + a2 * b0
      c3 == c2 \div 256 + a0 * b3 + a1 * b2 + a2 * b1 + a3 * b0
  IN FromBytes(c0 % 256, c1 % 256, c2 % 256, c3 % 256)

\* whether the exact product a * b lies outside the int range
MulOverflows(a, b) ==
  /\ a # 0
  /\ b # 0
  /\ Abs(a) > MaxInt32 \div Abs(b)
  /\ ~ ( /\ (a < 0) # (b < 0)
         /\ MaxInt32 \div Abs(a) + 1 = Abs(b)
         /\ MaxInt32 % Abs(a) = Abs(a) - 1 )

\* An int expression: `wide` marks a value outside the int range, which only
\* exists when the build evaluates the overflowing product in a wider register.
IntVal(n) == [wide |-> FALSE, v |-> n]
WideVal == [wide |-> TRUE, v |-> 0]

\* x * b in int arithmetic.  Signed overflow is undefined: the build either
\* wraps modulo 2^32 (ub = "wrap") or carries the exact product (ub = "wide").
IntMul(x, b, ub) ==
  IF x.wide THEN WideVal
  ELSE IF MulOverflows(x.v, b)
       THEN (IF ub = "wrap" THEN IntVal(MulWrap32(x.v, b)) ELSE WideVal)
       ELSE IntVal(x.v * b)

\* buffer.Length() == (size_t)(x): a negative int converts to a size_t above
\* 2^63 and a wide value lies above 2^31, neither is the length of a buffer here
SizeEq(len, x) == ~x.wide /\ x.v >= 0 /\ len = x.v

---------------------------------------------------------------------------
(* Construction: AprilTagDetector::AprilTagDetector *)

\* the tag family that is always compiled in, and those behind USE_TAG_* macros
DefaultFamily == "36h11"
OptionalFamilies == {"36h9", "25h9", "25h7", "16h5"}

\* the member `detector` before `new`: a null pointer
NullDetector == [ptr |-> FALSE, tagCodes |-> "", blackBorder |-> 0]

\* The if / else-if chain that selects the codeword table; "" is tagCodes
\* left at nullptr by the final else.  `enabled` is the set of optional
\* families whose USE_TAG_* macro the build defines.
ResolveFallsBack(enabled, tagFamily) ==
  IF tagFamily = DefaultFamily THEN "tagCodes36h11"
  ELSE IF tagFamily = "36h9" /\ "36h9" \in enabled THEN "tagCodes36h9"
  ELSE IF tagFamily = "25h9" /\ "25h9" \in enabled THEN "tagCodes25h9"
  ELSE IF tagFamily = "25h7" /\ "25h7" \in enabled THEN "tagCodes25h7"
  ELSE IF tagFamily = "16h5" /\ "16h5" \in enabled THEN "tagCodes16h5"
  ELSE "tagCodes36h11"

ResolveTagCodes(enabled, tagFamily) ==
  IF tagFamily = DefaultFamily THEN "tagCodes36h11"
  ELSE IF tagFamily = "36h9" /\ "36h9" \in enabled THEN "tagCodes36h9"
  ELSE IF tagFamily = "25h9" /\ "25h9" \in enabled THEN "tagCodes25h9"
  ELSE IF tagFamily = "25h7" /\ "25h7" \in enabled THEN "tagCodes25h7"
  ELSE IF tagFamily = "16h5" /\ "16h5" \in enabled THEN "tagCodes16h5"
  ELSE ""

CtorFail(msg) ==
  [thrown |-> msg, unwound |-> FALSE, fatal |-> FALSE,
   detector |-> NullDetector, created |-> 0]

\* The constructor body.  info is the argument list (info[1] is the code's
\* info[0]).  napi is how the build's binding layer reports a failure inside
\* a call such as Int32Value on a value that is not a number:
\*   "exceptions"      C++ exceptions are enabled: the call throws out of the
\*                     constructor, which is unwound;
\*   "noexcept"        they are disabled: the call leaves a host exception
\*                     pending, yields 0 and the constructor runs on; a later
\*                     ThrowAsJavaScriptException keeps the pending exception;
\*   "noexcept_fatal"  as "noexcept", but a later ThrowAsJavaScriptException
\*                     while an exception is pending is a fatal error that
\*                     ends the process.
Constructor(info, enabled, napi) ==
  IF Len(info) < 1 THEN CtorFail("Expected tag family string")
  ELSE IF ~IsString(info[1]) THEN CtorFail("Tag family must be a string")
  ELSE
    LET tagFamily == info[1].s
        given == Len(info) >= 2 /\ IsObject(info[2]) /\ HasBlackBorder(info[2])
        notNumber == given /\ ~IsNumber(info[2].bb)
        blackBorder == IF ~given THEN 1
                       ELSE IF notNumber THEN 0
                       ELSE Int32Value(info[2].bb)
        tagCodes == ResolveTagCodes(enabled, tagFamily)
    IN IF notNumber /\ napi = "exceptions"
       THEN [CtorFail("A number was expected") EXCEPT !.unwound = TRUE]
       ELSE IF tagCodes = ""
       THEN (IF ~notNumber
             THEN CtorFail("Unknown tag family. Only 36h11 is currently enabled")
             ELSE IF napi = "noexcept_fatal"
             THEN [CtorFail("FATAL ERROR: Error::ThrowAsJavaScriptException napi_throw")
                     EXCEPT !.fatal = TRUE]
             ELSE CtorFail("A number was expected"))
       ELSE [thrown |-> IF notNumber THEN "A number was expected" ELSE "",
             unwound |-> FALSE, fatal |-> FALSE,
             detector |-> [ptr |-> TRUE, tagCodes |-> tagCodes,
                           blackBorder |-> blackBorder],
             created |-> 1]

\* ~AprilTagDetector: the number of engines `if (detector) delete detector` frees
DestructorLeaks(det) == 0

DestructorDeletes(det) == IF det.ptr THEN 1 ELSE 0

NoCtorCall == [done |-> FALSE, info |-> <<>>, enabled |-> {}, thrown |-> ""]

---------------------------------------------------------------------------
(* Detection: AprilTagDetector::Detect *)

\* The argument checks at the head of Detect, in the code's order; "" when
\* all pass.  info[1] is the code's info[0].
ValidateDimsFirst(info) ==
  IF Len(info) < 3 \/ ~IsNumber(info[2]) \/ ~IsNumber(info[3])
  THEN "Expected width and height as numbers"
  ELSE IF ~IsBuffer(info[1]) THEN "Image must be a Buffer"
  ELSE ""

ValidateArgs(info) ==
  IF Len(info) < 1 THEN "Expected image buffer"
  ELSE IF ~IsBuffer(info[1]) THEN "Image must be a Buffer"
  ELSE IF Len(info) < 3 \/ ~IsNumber(info[2]) \/ ~IsNumber(info[3])
  THEN "Expected width and height as numbers"
  ELSE ""

\* The grayscale / RGB / RGBA chain: the channel count of the first branch
\* whose size test passes, 0 when the final else is taken.
MatchChannels(len, width, height, ub) ==
  LET wh == IntMul(IntVal(width), height, ub)
  IN IF SizeEq(len, wh) THEN 1
     ELSE IF SizeEq(len, IntMul(wh, 3, ub)) THEN 3
     ELSE IF SizeEq(len, IntMul(wh, 4, ub)) THEN 4
     ELSE 0

\* whether some product of the chain overflows for these dimensions
ChainOverflows(width, height) ==
  \/ MulOverflows(width, height)
  \/ /\ ~MulOverflows(width, height)
     /\ (MulOverflows(width * height, 3) \/ MulOverflows(width * height, 4))

\* cv::Mat(rows, cols, type, buffer.Data()): whether the rows * cols * c
\* bytes the header describes lie inside the len bytes of the buffer
ViewFits(len, rows, cols, c) ==
  /\ rows >= 0
  /\ cols >= 0
  /\ \/ rows = 0
     \/ cols = 0
     \/ /\ rows <= len
        /\ cols <= len
        /\ rows * cols * c <= len

NoImage == [made |-> FALSE, rows |-> 0, cols |-> 0]

\* The conversion loop of one raw detection into a host object: arrays are
\* functions on 0 .. n-1, as the host indexes them.
MarshalTransposed(d) ==
  [id |-> d.id, hammingDistance |-> d.hammingDistance, good |-> d.good,
   center |-> [k \in 0..1 |-> d.cxy[k + 1]],
   corners |-> [j \in 0..3 |-> [k \in 0..1 |-> d.p[j + 1][k + 1]]],
   homography |-> [n \in 0..8 |-> d.homography[(n % 3) + 1][(n \div 3) + 1]]]

MarshalDetection(d) ==
  [id |-> d.id, hammingDistance |-> d.hammingDistance, good |-> d.good,
   center |-> [k \in 0..1 |-> d.cxy[k + 1]],
   corners |-> [j \in 0..3 |-> [k \in 0..1 |-> d.p[j + 1][k + 1]]],
   homography |-> [n \in 0..8 |-> d.homography[(n \div 3) + 1][(n % 3) + 1]]]

\* result[i] = the object made from detections[i]
MarshalAll(dets) == [i \in 0..(Len(dets) - 1) |-> MarshalDetection(dets[i + 1])]

DetFail(info, msg) ==
  [done |-> TRUE, info |-> info, thrown |-> msg, returned |-> "null",
   width |-> 0, height |-> 0, channels |-> 0, viewFits |-> TRUE,
   image |-> NoImage, engineInvoked |-> FALSE, aborted |-> FALSE,
   detections |-> <<>>, result |-> <<>>]

\* One run of Detect.  ub resolves the undefined signed overflow, lib is what
\* the image library does with a header that does not fit the buffer or has a
\* negative dimension ("aborts": it throws or faults, and the process ends),
\* dets is what extractTags returns.
DetectOutcome(info, ub, lib, dets) ==
  LET bad == ValidateArgs(info)
  IN IF bad # "" THEN DetFail(info, bad)
     ELSE
       LET len == info[1].len
           width == Int32Value(info[2])
           height == Int32Value(info[3])
           c == MatchChannels(len, width, height, ub)
           fits == ViewFits(len, height, width, c)
       IN IF c = 0
          THEN DetFail(info, "Invalid buffer size for given dimensions")
          ELSE IF ~fits /\ lib = "aborts"
          THEN [DetFail(info, "") EXCEPT !.returned = "none", !.width = width,
                  !.height = height, !.channels = c, !.viewFits = FALSE,
                  !.aborted = TRUE]
          ELSE [done |-> TRUE, info |-> info, thrown |-> "", returned |-> "array",
                width |-> width, height |-> height, channels |-> c,
                viewFits |-> fits,
                image |-> [made |-> TRUE, rows |-> height, cols |-> width],
                engineInvoked |-> TRUE, aborted |-> FALSE,
                detections |-> dets, result |-> MarshalAll(dets)]

NoDetCall == [DetFail(<<>>, "") EXCEPT !.done = FALSE, !.returned = "none"]

---------------------------------------------------------------------------
(* Inputs *)

\* the most detections one extractTags call returns
MaxDet == 2

\* two raw detections, told apart by every field; the second is flagged
\* invalid by the engine; neither homography is symmetric
RawDetections ==
  { [id |-> 3, hammingDistance |-> 0, good |-> TRUE, cxy |-> <<10, 20>>,
     p |-> << <<1, 2>>, <<3, 4>>, <<5, 6>>, <<7, 8>> >>,
     homography |-> << <<1, 2, 3>>, <<4, 5, 6>>, <<7, 8, 9>> >>],
    [id |-> 7, hammingDistance |-> 2, good |-> FALSE, cxy |-> <<30, 40>>,
     p |-> << <<8, 6>>, <<4, 2>>, <<7, 5>>, <<3, 1>> >>,
     homography |-> << <<9, 7, 5>>, <<3, 1, 8>>, <<6, 4, 2>> >>] }

SeqsUpTo(S, n) == UNION { [1..k -> S] : k \in 0..n }

FamilyArgs ==
  { Str("36h11"), Str("36h9"), Str("25h9"), Str("25h7"), Str("16h5"),
    Str("tag36h11") }

OptionArgs ==
  { Num(2, 0), Obj(FALSE, Undefined), Obj(TRUE, Num(2, 0)), Obj(TRUE, Num(0, 0)),
    Obj(TRUE, Num(-1, 0)), Obj(TRUE, Num(2, 1)), Obj(TRUE, Str("2")) }

CtorInfos ==
  { <<>>, <<Num(36, 0)>> }
    \cup { <<f>> : f \in FamilyArgs }
    \cup { <<f, o>> : f \in FamilyArgs, o \in OptionArgs }

\* the sets of USE_TAG_* macros a build defines
Builds == { {}, {"36h9", "25h9"}, {"25h7", "16h5"} }

\* how the build's binding layer reports failures (see Constructor)
NapiModes == {"exceptions", "noexcept", "noexcept_fatal"}

BufferArgs == { Str("pixels"), Buf(0), Buf(2), Buf(5), Buf(6), Buf(8) }

\* 3 * 1431655766 = 2^32 + 2: the first product of the chain overflows, and
\* with width 1 the second one does
WidthArgs == { Str("2"), Num(0, 0), Num(1, 0), Num(-1, 0), Num(3, 0) }

HeightArgs == { Str("2"), Num(0, 0), Num(2, 0), Num(-2, 0), Num(1431655766, 0) }

DetectInfos ==
  { <<>>, <<Buf(2)>>, <<Str("pixels")>>, <<Buf(2), Num(1, 0)>>,
    <<Str("pixels"), Str("2")>> }
    \cup { <<b, w, h>> : b \in BufferArgs, w \in WidthArgs, h \in HeightArgs }

\* the outcomes of the undefined overflow, where one occurs
UbOutcomes(info) ==
  IF ValidateArgs(info) = "" /\ ChainOverflows(Int32Value(info[2]), Int32Value(info[3]))
  THEN {"wrap", "wide"}
  ELSE {"wrap"}

\* Every outcome of detect(info): over the outcomes of the overflow, over what
\* the image library does where the header is not a valid view of the buffer,
\* and over what the engine returns where it is invoked.
DetectOutcomes(info) ==
  UNION { LET probe == DetectOutcome(info, ub, "proceeds", <<>>)
          IN { DetectOutcome(info, ub, lib, dets) :
                 lib \in (IF probe.viewFits THEN {"proceeds"}
                          ELSE {"proceeds", "aborts"}),
                 dets \in (IF probe.engineInvoked
                           THEN SeqsUpTo(RawDetections, MaxDet)
                           ELSE { <<>> }) }
          : ub \in UbOutcomes(info) }

---------------------------------------------------------------------------
(* The state machine *)

Init ==
  /\ phase = "new"
  /\ detector = NullDetector
  /\ created = 0
  /\ destroyed = 0
  /\ ctorCall = NoCtorCall
  /\ detCall = NoDetCall

\* `new AprilTagDetector(...)`: the constructor, then the object wrap's
\* handling of a failure.  A constructor that ran to its end with a host
\* exception pending is deleted at once when C++ exceptions are disabled, and
\* is left to the collector otherwise; one that was unwound never existed;
\* after a fatal error there is no process left.
Construct(info, enabled, napi) ==
  /\ phase = "new"
  /\ LET o == Constructor(info, enabled, napi)
     IN /\ detector' = o.detector
        /\ created' = created + o.created
        /\ ctorCall' = [done |-> TRUE, info |-> info, enabled |-> enabled,
                        thrown |-> o.thrown]
        /\ IF o.thrown = ""
           THEN phase' = "live" /\ destroyed' = destroyed
           ELSE IF o.fatal
           THEN phase' = "aborted" /\ destroyed' = destroyed
           ELSE IF o.unwound
           THEN phase' = "gone" /\ destroyed' = destroyed
           ELSE IF napi # "exceptions"
           THEN phase' = "gone" /\ destroyed' = destroyed + DestructorDeletes(o.detector)
           ELSE phase' = "failed" /\ destroyed' = destroyed
  /\ UNCHANGED detCall

\* what a detect call with outcome o does to the call record and to the process
DetectEffect(o) ==
  /\ phase = "live"
  /\ detCall' = o
  /\ phase' = IF detCall'.aborted THEN "aborted" ELSE "live"

DetectReconfigures(o) ==
  /\ DetectEffect(o)
  /\ detector' = IF detCall'.engineInvoked
                 THEN [detector EXCEPT !.blackBorder = 1]
                 ELSE detector
  /\ UNCHANGED <<created, destroyed, ctorCall>>

\* `service.detect(...)` on the live instance
Detect(o) ==
  /\ DetectEffect(o)
  /\ UNCHANGED <<detector, created, destroyed, ctorCall>>

\* the collector finalizes the instance: ~AprilTagDetector
Teardown ==
  /\ phase \in {"live", "failed"}
  /\ destroyed' = destroyed + DestructorDeletes(detector)
  /\ phase' = "gone"
  /\ UNCHANGED <<detector, created, ctorCall, detCall>>

Next ==
  \/ \E info \in CtorInfos, enabled \in Builds, napi \in NapiModes :
       Construct(info, enabled, napi)
  \/ \E info \in DetectInfos :
       \E o \in DetectOutcomes(info) : Detect(o)
  \/ Teardown

Spec == Init /\ [][Next]_vars

---------------------------------------------------------------------------
(* Vocabulary of the properties *)

\* the error kinds of the specification, by the message the code throws
UnknownTagFamilyMsg == "Unknown tag family. Only 36h11 is currently enabled"
NumberExpectedMsg == "A number was expected"
InvalidArgumentMsgs ==
  { "Expected image buffer", "Image must be a Buffer",
    "Expected width and height as numbers" }
BufferArgumentMsgs == { "Expected image buffer", "Image must be a Buffer" }
DimensionArgumentMsg == "Expected width and height as numbers"
InvalidBufferSizeMsg == "Invalid buffer size for given dimensions"

\* the codeword table a family name stands for
TableNamed(name) ==
  CASE name = "36h11" -> "tagCodes36h11"
    [] name = "36h9" -> "tagCodes36h9"
    [] name = "25h9" -> "tagCodes25h9"
    [] name = "25h7" -> "tagCodes25h7"
    [] name = "16h5" -> "tagCodes16h5"
    [] OTHER -> "none"

CompiledIn(enabled) == {DefaultFamily} \cup enabled

\* the constructor was called with a family name string
NameGiven == ctorCall.done /\ Len(ctorCall.info) >= 1 /\ IsString(ctorCall.info[1])
FamilyName == ctorCall.info[1].s
ConstructionSucceeded == ctorCall.done /\ ctorCall.thrown = ""

\* the options argument is an object that carries the key blackBorder
BorderGiven ==
  /\ ctorCall.done
  /\ Len(ctorCall.info) >= 2
  /\ ctorCall.info[2].t = "object"
  /\ ctorCall.info[2].has
BorderOption == ctorCall.info[2].bb
\* the options argument is missing, or is an object without the key
BorderAbsent ==
  /\ ctorCall.done
  /\ \/ Len(ctorCall.info) < 2
     \/ ctorCall.info[2].t = "object" /\ ~ctorCall.info[2].has
PositiveInteger(v) == v.t = "number" /\ v.frac = 0 /\ v.whole > 0

\* the exact value of a host number, doubled
Twice(v) == IF v.whole < 0 THEN 2 * v.whole - v.frac ELSE 2 * v.whole + v.frac
IsZero(v) == v.whole = 0 /\ v.frac = 0

\* len = w * h * c over the rationals, for host numbers w and h.  A factor
\* above 4 * len in magnitude cannot give len, the other being at least 1/2.
ProductIs(w, h, c, len) ==
  IF IsZero(w) \/ IsZero(h) THEN len = 0
  ELSE IF Abs(w.whole) > 4 * len \/ Abs(h.whole) > 4 * len THEN FALSE
  ELSE Twice(w) * Twice(h) * c = 4 * len

\* the last detect call passed a buffer and two numbers
WellTyped ==
  /\ detCall.done
  /\ Len(detCall.info) >= 3
  /\ IsBuffer(detCall.info[1])
  /\ IsNumber(detCall.info[2])
  /\ IsNumber(detCall.info[3])
BufferLength == detCall.info[1].len
DeclaredWidth == detCall.info[2]
DeclaredHeight == detCall.info[3]
SizeMatches ==
  \E c \in {1, 3, 4} : ProductIs(DeclaredWidth, DeclaredHeight, c, BufferLength)

---------------------------------------------------------------------------
(* Properties *)

\* C1: a detect call with a buffer and numeric width w and height h is
\* accepted (passes the size test on its way to the engine) if and only if the
\* buffer length is w*h, w*h*3 or w*h*4; for any other length it fails with
\* InvalidBufferSize, the engine is not invoked and no result sequence is
\* returned.
C1_AcceptedIffSizeMatches ==
  WellTyped =>
    /\ detCall.channels # 0 <=> SizeMatches
    /\ ~SizeMatches =>
         /\ detCall.thrown = InvalidBufferSizeMsg
         /\ ~detCall.engineInvoked
         /\ detCall.returned # "array"

\* C2: the returned sequence has the length of the engine's sequence and its
\* record i is built from raw detection i, nothing re-sorted, dropped or
\* merged: id, hammingDistance and good copied, center = (x, y), the four
\* corners in the engine's order, homography[3r + c] = the entry at (r, c).
C2_ResultMirrorsDetections ==
  detCall.engineInvoked =>
    /\ detCall.returned = "array"
    /\ DOMAIN detCall.result = 0..(Len(detCall.detections) - 1)
    /\ \A i \in DOMAIN detCall.result :
         LET rec == detCall.result[i]
             raw == detCall.detections[i + 1]
         IN /\ rec.id = raw.id
            /\ rec.hammingDistance = raw.hammingDistance
            /\ rec.good = raw.good
            /\ DOMAIN rec.center = 0..1
            /\ rec.center[0] = raw.cxy[1]
            /\ rec.center[1] = raw.cxy[2]
            /\ DOMAIN rec.corners = 0..3
            /\ \A j \in 0..3 :
                 /\ rec.corners[j][0] = raw.p[j + 1][1]
                 /\ rec.corners[j][1] = raw.p[j + 1][2]
            /\ DOMAIN rec.homography = 0..8
            /\ \A r \in 0..2 : \A c \in 0..2 :
                 rec.homography[3 * r + c] = raw.homography[r + 1][c + 1]

\* C2 witness: the engine returned two different detections, the first one
\* flagged invalid, and detect returned them
C2_Witness ==
  /\ detCall.engineInvoked
  /\ Len(detCall.detections) = 2
  /\ detCall.detections[1] # detCall.detections[2]
  /\ ~detCall.detections[1].good
  /\ ~detCall.result[0].good

\* C3 as stated: for a family name that is not compiled in, construction
\* fails with UnknownTagFamily, no engine is created, no handle is produced
\* and no detect call runs.
C3_UnknownFamilyAlwaysNamed ==
  (NameGiven /\ FamilyName \notin CompiledIn(ctorCall.enabled)) =>
    /\ ctorCall.thrown = UnknownTagFamilyMsg
    /\ created = 0
    /\ ~detector.ptr
    /\ phase # "live"
    /\ ~detCall.done

\* C3 amended: for a family name that is not compiled in, construction fails,
\* no engine is created, no handle is produced and no detect call runs; the
\* failure is UnknownTagFamily whenever the options carry no blackBorder or a
\* blackBorder that is a number.
C3_UnknownFamilyFails ==
  (NameGiven /\ FamilyName \notin CompiledIn(ctorCall.enabled)) =>
    /\ ctorCall.thrown # ""
    /\ ~(BorderGiven /\ ~IsNumber(BorderOption)) =>
         ctorCall.thrown = UnknownTagFamilyMsg
    /\ created = 0
    /\ ~detector.ptr
    /\ phase # "live"
    /\ ~detCall.done

\* C3 witness: a build with optional families, asked for an optional family
\* it does not hold, has thrown the unknown-family error
C3_Witness ==
  /\ NameGiven
  /\ FamilyName \in OptionalFamilies
  /\ ctorCall.enabled # {}
  /\ FamilyName \notin ctorCall.enabled
  /\ ctorCall.thrown = UnknownTagFamilyMsg

\* C4: after a successful construction the service owns exactly one engine,
\* whose table is the one named by tagFamilyName and whose border width is
\* options.blackBorder when present, 1 when the options or the key is absent.
C4_EngineConfigured ==
  ConstructionSucceeded =>
    /\ created = 1
    /\ detector.ptr
    /\ detector.tagCodes = TableNamed(FamilyName)
    /\ BorderGiven =>
         /\ BorderOption.t = "number"
         /\ BorderOption.frac = 0
         /\ detector.blackBorder = BorderOption.whole
    /\ BorderAbsent => detector.blackBorder = 1

\* C5: a detect call, whatever its outcome, leaves the codeword table, the
\* border width and the engine instance as they were, and a call that fails
\* with an error leaves the service live for later calls.
C5_DetectKeepsConfiguration ==
  [][ (phase = "live" /\ phase' # "gone") =>
        /\ detector' = detector
        /\ created' = created
        /\ destroyed' = destroyed
        /\ ctorCall' = ctorCall
        /\ detCall'.thrown # "" => phase' = "live" ]_vars

\* C5 witness: a service configured with border width 2 after a detect call
\* that failed with InvalidBufferSize
C5_Witness ==
  /\ phase = "live"
  /\ detCall.thrown = InvalidBufferSizeMsg
  /\ detector.ptr
  /\ detector.blackBorder = 2

\* C6: a missing or non-buffer first argument fails with InvalidArgument for
\* the buffer whatever the other arguments are, a missing or non-numeric
\* width or height fails with InvalidArgument for the dimensions whatever the
\* buffer length is, and in both cases no image is made and the engine is not
\* invoked.
C6_ArgumentsCheckedFirst ==
  detCall.done =>
    LET badBuffer == Len(detCall.info) < 1 \/ ~IsBuffer(detCall.info[1])
        badDims == \/ Len(detCall.info) < 3
                   \/ ~IsNumber(detCall.info[2])
                   \/ ~IsNumber(detCall.info[3])
    IN /\ badBuffer => detCall.thrown \in BufferArgumentMsgs
       /\ (~badBuffer /\ badDims) => detCall.thrown = DimensionArgumentMsg
       /\ (badBuffer \/ badDims) =>
            /\ detCall.thrown \in InvalidArgumentMsgs
            /\ ~detCall.image.made
            /\ ~detCall.engineInvoked
            /\ detCall.returned = "null"
       /\ detCall.thrown = InvalidBufferSizeMsg => (~badBuffer /\ ~badDims)

\* C6 witness: a call whose buffer and width are both of the wrong type was
\* refused for its buffer
C6_Witness ==
  /\ detCall.done
  /\ Len(detCall.info) = 3
  /\ ~IsBuffer(detCall.info[1])
  /\ ~IsNumber(detCall.info[2])
  /\ detCall.thrown = "Image must be a Buffer"

\* C7: a blackBorder option that is not a positive integer makes construction
\* fail with InvalidBorderWidth (the only error the code raises about the
\* option is the number conversion's), and no engine is left configured with
\* that value.
C7_BorderWidthValidated ==
  (NameGiven /\ FamilyName \in CompiledIn(ctorCall.enabled)
     /\ BorderGiven /\ ~PositiveInteger(BorderOption)) =>
    /\ ctorCall.thrown = NumberExpectedMsg
    /\ phase # "live"
    /\ ~(detector.ptr /\ IsNumber(BorderOption)
           /\ detector.blackBorder = Int32Value(BorderOption))

EngineLifecycleOK ==
  /\ created \in 0..1
  /\ destroyed \in 0..created
  /\ phase = "gone" => destroyed = created
  /\ phase \in {"new", "live", "failed"} => destroyed = 0

\* C8: over the life of a service an engine is created at most once, is
\* destroyed exactly once at teardown if and only if it was created, and a
\* detect call invokes it only after it was created and before it is destroyed.
C8_EngineLifecycle ==
  [][ /\ EngineLifecycleOK'
      /\ created' >= created
      /\ destroyed' >= destroyed
      /\ (detCall' # detCall /\ detCall'.engineInvoked) =>
           /\ created = 1
           /\ destroyed = 0
           /\ detector.ptr
           /\ destroyed' = 0 ]_vars

\* C8 witness: a service that was constructed, ran a detection and was torn
\* down, with one engine created and one destroyed
C8_Witness ==
  /\ phase = "gone"
  /\ detCall.engineInvoked
  /\ created = 1
  /\ destroyed = 1

\* C9: for positive width and height, a buffer is taken as c-channel only
\* when its length is the exact product width * height * c, so the image view
\* never covers more bytes than the buffer holds.
C9_NoWrapAround ==
  (WellTyped /\ detCall.width > 0 /\ detCall.height > 0 /\ detCall.channels # 0) =>
    /\ ProductIs(Num(detCall.width, 0), Num(detCall.height, 0),
                 detCall.channels, BufferLength)
    /\ detCall.viewFits

\* C10: whenever detect invokes the engine the image has the declared width
\* and height, both at least 1; a call declaring a zero or negative width or
\* height never reaches the engine.
C10_PositiveDimensions ==
  detCall.engineInvoked =>
    /\ detCall.image.made
    /\ detCall.image.cols = detCall.width
    /\ detCall.image.rows = detCall.height
    /\ DeclaredWidth.frac = 0 /\ DeclaredWidth.whole = detCall.width
    /\ DeclaredHeight.frac = 0 /\ DeclaredHeight.whole = detCall.height
    /\ detCall.width >= 1
    /\ detCall.height >= 1

====
